---- MODULE Spec2Model ----
(***************************************************************************)
(* Stem mixer transport (src/renderer.js), the Electron main process and   *)
(* projector page (src/README.md, src/unnamed/part_000) and the backend    *)
(* task table (src/unnamed/part_000, main.py).                             *)
(*                                                                         *)
(* Time is counted in units of 0.05 s, the end guard of renderer.js:112,   *)
(* so that every time the code computes is an integer.  video.currentTime  *)
(* is the position of the last seek of the element: the 'seeked' handler   *)
(* reads it within one unit of the seek that caused the event.             *)
(***************************************************************************)
EXTENDS Integers, Sequences, FiniteSets, TLC

\* ---- bounds ---------------------------------------------------------------
MaxTime == 1
MaxClock == 1
MaxCtx == 2
MaxSeeked == 2
MaxPending == 1
MaxBacklog == 0
MaxHist == 3
MaxWin == 2
MaxTasks == 2
MaxBytes == 2
MaxSegs == 3
MaxStems == 2
MaxFrames == 2
MaxPolls == 3
LongStem == 2
ShortStem == 1

\* ---- program constants ----------------------------------------------------
\* the end guard of a stem start in units of 0.05 s, and the default gain of
\* a stem in hundredths
EndGuard == 1
UnityGain == 100
MaxGain == 200

VARIABLES
  audioContext, ctxState, clock,
  stemNames, stemGains, audioBuffers, gainNodes, nodeGain, sliders,
  sourceNodes, orphans,
  isPlaying, startTime, pauseTime, suppressVideoSeekHandler,
  video, seekedQ, pendingPlays, loads, controlsEnabled,
  ipcQ, closeProjectorEnabled,
  projectorWindow, wins, projQ, mainError,
  hist, tracing,
  tasks, run, loopOwner, seen, reply, cleared,
  fileReq, fileResp, stemDir, mergeOut, remerge, mixOut, manifest, poll

audioVars == <<audioContext, ctxState, clock>>
stemVars == <<stemNames, stemGains, audioBuffers, gainNodes, nodeGain, sliders>>
transportVars == <<sourceNodes, orphans, isPlaying, startTime, pauseTime,
                   suppressVideoSeekHandler>>
videoVars == <<video, seekedQ>>
mainVars == <<projectorWindow, wins, projQ, mainError>>
vars == <<audioVars, stemVars, transportVars, videoVars, pendingPlays, loads,
          controlsEnabled, ipcQ, closeProjectorEnabled, mainVars, hist,
          tracing, tasks, run, loopOwner, seen, reply, cleared,
          fileReq, fileResp, stemDir, mergeOut, remerge, mixOut, manifest,
          poll>>
frontVars == <<audioVars, stemVars, transportVars, videoVars, pendingPlays,
               loads, controlsEnabled, ipcQ, closeProjectorEnabled, mainVars,
               hist, tracing>>
httpVars == <<seen, reply, cleared>>
mergeVars == <<stemDir, mergeOut, remerge, mixOut>>
pureVars == <<fileReq, fileResp, mergeVars, manifest, poll>>
backVars == <<tasks, run, loopOwner, httpVars, pureVars>>
restVars == <<pureVars, frontVars>>

\* ---- helpers --------------------------------------------------------------
Min(a, b) == IF a < b THEN a ELSE b
Max(a, b) == IF a > b THEN a ELSE b
Range(s) == {s[i] : i \in 1..Len(s)}
Last(s) == s[Len(s)]
RECURSIVE SelectSeqBy(_, _)
SelectSeqBy(s, S) ==
  IF s = <<>> THEN <<>>
  ELSE IF Head(s) \in S THEN <<Head(s)>> \o SelectSeqBy(Tail(s), S)
       ELSE SelectSeqBy(Tail(s), S)

\* one observable effect of a handler: a Web Audio call, a command to the
\* video element or a message sent with ipcRenderer.send
Fx(k, s, t) == [k |-> k, s |-> s, t |-> t]
Ipc(ch, t) == [ch |-> ch, arg |-> t]
IpcFx(m) == Fx("ipc", m.ch, m.arg)

\* renderer.js:290, the stem vocabulary in its canonical order
Canonical == <<"vocals", "drums", "bass", "guitar", "piano", "other">>
\* the stems the backend recorded for the assembled set, and the length of
\* each decoded buffer
PossibleStems == <<"vocals", "drums">>
Duration(s) == IF s = "vocals" THEN LongStem ELSE ShortStem

\* ---- the record of what the handlers did ----------------------------------
\* hist holds the last MaxHist handler runs when tracing is on: the handler,
\* its argument, the audio clock, the number of 'seeked' notifications still
\* owed by the video element, and what the handler did
Owed == seekedQ + (IF video.seeking THEN 1 ELSE 0)
Entry(op, arg, fx) ==
  [op |-> op, arg |-> arg, at |-> clock, owed |-> Owed, fx |-> fx]
Log(op, arg, fx) ==
  hist' = IF tracing
          THEN (IF Len(hist) < MaxHist THEN Append(hist, Entry(op, arg, fx))
                ELSE Append(Tail(hist), Entry(op, arg, fx)))
          ELSE hist

\* ---- video element --------------------------------------------------------
VideoSetTime_Silent(v, t) == [v EXCEPT !.currentTime = t]
\* setting currentTime runs the seek algorithm; a seek that is still running
\* is aborted by the new one, so only one 'seeked' follows
VideoSetTime(v, t) == [v EXCEPT !.currentTime = t, !.seeking = TRUE]
VideoPlay(v) == [v EXCEPT !.paused = FALSE]
VideoPause_Skip(v) == v
VideoPause(v) == [v EXCEPT !.paused = TRUE]

\* ---- renderer.js ----------------------------------------------------------
\* renderer.js:81-84; the flag and the video element after the call
scheduleVideoSeek(flag, v, timeInSeconds) ==
  [flag |-> TRUE, video |-> VideoSetTime(v, timeInSeconds)]

StopFx == [i \in 1..Len(sourceNodes) |-> Fx("stop", sourceNodes[i].stem, sourceNodes[i].offset)]

\* renderer.js:70-79; every source is stopped, then the list is emptied
stopCurrentSources_Leak(nodes) == Range(nodes)
stopCurrentSources(nodes) == {}

SafeOffset(clampedOffset, s) == Min(clampedOffset, Max(0, Duration(s) - EndGuard))

Startable == SelectSeqBy(stemNames, audioBuffers \cap DOMAIN gainNodes)

NewSources(clampedOffset) ==
  [i \in 1..Len(Startable) |->
     [ctx |-> audioContext, stem |-> Startable[i],
      offset |-> SafeOffset(clampedOffset, Startable[i])]]

StartMsgs_PlayFirst(clampedOffset) ==
  <<Ipc("projector-play", 0), Ipc("projector-seek", clampedOffset)>>
StartMsgs(clampedOffset) ==
  <<Ipc("projector-seek", clampedOffset), Ipc("projector-play", 0)>>

StartFx(offsetSeconds) ==
  LET c == Max(0, offsetSeconds)
      ns == NewSources(c)
  IN  StopFx
      \o [i \in 1..Len(ns) |-> Fx("start", ns[i].stem, ns[i].offset)]
      \o <<Fx("vseek", "", c), Fx("vplay", "", 0)>>
      \o [i \in 1..2 |-> IpcFx(StartMsgs(c)[i])]

\* renderer.js:95-131, the part of startPlaybackFrom after the await
StartBody(offsetSeconds) ==
  LET c == Max(0, offsetSeconds) IN
  /\ orphans' = orphans \cup stopCurrentSources(sourceNodes)
  /\ sourceNodes' = NewSources(c)
  /\ suppressVideoSeekHandler' =
       scheduleVideoSeek(suppressVideoSeekHandler, video, c).flag
  /\ video' = VideoPlay(scheduleVideoSeek(suppressVideoSeekHandler, video, c).video)
  /\ ipcQ' = ipcQ \o StartMsgs(c)
  /\ startTime' = clock - c
  /\ pauseTime' = c
  /\ isPlaying' = TRUE

CanSend(n) == Len(ipcQ) <= MaxBacklog
CanAwait ==
  (audioContext # 0 /\ ctxState[audioContext] = "suspended")
     => Len(pendingPlays) < MaxPending

\* renderer.js:86-132; with a suspended context the call stops at the await
\* of line 92 and the rest runs when the resume() promise is settled
startPlaybackFrom(offsetSeconds) ==
  IF audioContext = 0
  THEN UNCHANGED <<transportVars, video, ipcQ, pendingPlays>>
  ELSE IF ctxState[audioContext] = "suspended"
  THEN /\ pendingPlays' = Append(pendingPlays,
                                 [ctx |-> audioContext, offset |-> offsetSeconds])
       /\ UNCHANGED <<transportVars, video, ipcQ>>
  ELSE /\ StartBody(offsetSeconds)
       /\ UNCHANGED pendingPlays

startPlaybackFx(offsetSeconds) ==
  IF audioContext = 0 THEN <<>>
  ELSE IF ctxState[audioContext] = "suspended" THEN <<Fx("resume", "", 0)>>
  ELSE StartFx(offsetSeconds)

\* renderer.js:404-417
PlayClick ==
  /\ controlsEnabled /\ CanSend(2) /\ CanAwait
  /\ IF audioContext = 0 \/ isPlaying
     THEN /\ UNCHANGED <<transportVars, video, ipcQ, pendingPlays>>
          /\ Log("Play", pauseTime, <<>>)
     ELSE /\ startPlaybackFrom(pauseTime)
          /\ Log("Play", pauseTime, startPlaybackFx(pauseTime))
  /\ UNCHANGED <<audioVars, stemVars, seekedQ, loads, controlsEnabled,
                 closeProjectorEnabled, mainVars, tracing, backVars>>

\* the continuation of startPlaybackFrom after 'await audioContext.resume()'.
\* A promise of a context that was closed meanwhile is settled either way.
ResumeDone ==
  /\ pendingPlays # <<>> /\ CanSend(2)
  /\ LET p == Head(pendingPlays) IN
     /\ pendingPlays' = Tail(pendingPlays)
     /\ \/ /\ ctxState' = IF ctxState[p.ctx] = "closed" THEN ctxState
                          ELSE [ctxState EXCEPT ![p.ctx] = "running"]
           /\ StartBody(p.offset)
           /\ Log("Resumed", p.offset, StartFx(p.offset))
        \/ /\ ctxState[p.ctx] = "closed"
           /\ UNCHANGED <<ctxState, transportVars, video, ipcQ>>
           /\ Log("ResumeRejected", p.offset, <<>>)
  /\ UNCHANGED <<audioContext, clock, stemVars, seekedQ, loads,
                 controlsEnabled, closeProjectorEnabled, mainVars, tracing, backVars>>

\* renderer.js:419-430
PauseFx == StopFx \o <<Fx("vpause", "", 0), IpcFx(Ipc("projector-pause", 0))>>

PausedAt_Stale(now, anchor, old) == old
PausedAt(now, anchor, old) == now - anchor

PauseClick ==
  /\ controlsEnabled /\ CanSend(1)
  /\ IF ~isPlaying
     THEN /\ UNCHANGED <<transportVars, video, ipcQ>>
          /\ Log("Pause", 0, <<>>)
     ELSE /\ orphans' = orphans \cup stopCurrentSources(sourceNodes)
          /\ sourceNodes' = <<>>
          /\ video' = VideoPause(video)
          /\ ipcQ' = Append(ipcQ, Ipc("projector-pause", 0))
          /\ pauseTime' = PausedAt(clock, startTime, pauseTime)
          /\ isPlaying' = FALSE
          /\ UNCHANGED <<startTime, suppressVideoSeekHandler>>
          /\ Log("Pause", 0, PauseFx)
  /\ UNCHANGED <<audioVars, stemVars, seekedQ, pendingPlays, loads,
                 controlsEnabled, closeProjectorEnabled, mainVars, tracing, backVars>>

\* renderer.js:432-441
StopFx2 ==
  StopFx \o <<Fx("vpause", "", 0), Fx("vseek", "", 0),
              IpcFx(Ipc("projector-pause", 0)), IpcFx(Ipc("projector-seek", 0))>>

StopClick ==
  /\ controlsEnabled /\ CanSend(2)
  /\ orphans' = orphans \cup stopCurrentSources(sourceNodes)
  /\ sourceNodes' = <<>>
  /\ suppressVideoSeekHandler' =
       scheduleVideoSeek(suppressVideoSeekHandler, VideoPause(video), 0).flag
  /\ video' = scheduleVideoSeek(suppressVideoSeekHandler, VideoPause(video), 0).video
  /\ ipcQ' = ipcQ \o <<Ipc("projector-pause", 0), Ipc("projector-seek", 0)>>
  /\ pauseTime' = 0
  /\ isPlaying' = FALSE
  /\ UNCHANGED startTime
  /\ Log("Stop", 0, StopFx2)
  /\ UNCHANGED <<audioVars, stemVars, seekedQ, pendingPlays, loads,
                 controlsEnabled, closeProjectorEnabled, mainVars, tracing, backVars>>

\* the user drags the seek bar of the video element (index.html: controls)
UserSeek(T) ==
  /\ video' = VideoSetTime(video, T)
  /\ Log("UserSeek", T, <<>>)
  /\ UNCHANGED <<audioVars, stemVars, transportVars, seekedQ, pendingPlays,
                 loads, controlsEnabled, ipcQ, closeProjectorEnabled,
                 mainVars, tracing, backVars>>

\* the seek algorithm of the video element ends and queues 'seeked'
VideoSeekDone ==
  /\ video.seeking
  /\ seekedQ < MaxSeeked
  /\ video' = [video EXCEPT !.seeking = FALSE]
  /\ seekedQ' = seekedQ + 1
  /\ UNCHANGED <<audioVars, stemVars, transportVars, pendingPlays, loads,
                 controlsEnabled, ipcQ, closeProjectorEnabled, mainVars,
                 hist, tracing, backVars>>

\* renderer.js:53-68
SeekedEvent ==
  /\ seekedQ > 0 /\ CanSend(2) /\ CanAwait
  /\ seekedQ' = seekedQ - 1
  /\ IF audioContext = 0
     THEN /\ UNCHANGED <<transportVars, video, ipcQ, pendingPlays>>
          /\ Log("Seeked", video.currentTime, <<>>)
     ELSE IF suppressVideoSeekHandler
     THEN /\ suppressVideoSeekHandler' = FALSE
          /\ UNCHANGED <<sourceNodes, orphans, isPlaying, startTime,
                         pauseTime, video, ipcQ, pendingPlays>>
          /\ Log("Seeked", video.currentTime, <<Fx("suppressed", "", 0)>>)
     ELSE IF isPlaying
     THEN /\ startPlaybackFrom(video.currentTime)
          /\ Log("Seeked", video.currentTime,
                 startPlaybackFx(video.currentTime))
     ELSE /\ pauseTime' = video.currentTime
          /\ ipcQ' = Append(ipcQ, Ipc("projector-seek", video.currentTime))
          /\ UNCHANGED <<sourceNodes, orphans, isPlaying, startTime,
                         suppressVideoSeekHandler, video, pendingPlays>>
          /\ Log("Seeked", video.currentTime,
                 <<IpcFx(Ipc("projector-seek", video.currentTime))>>)
  /\ UNCHANGED <<audioVars, stemVars, loads, controlsEnabled,
                 closeProjectorEnabled, mainVars, tracing, backVars>>

\* renderer.js:263-286, loadStemsForPlayback up to its first await
ClosePrevious(states, ac) ==
  IF ac = 0 THEN states ELSE [states EXCEPT ![ac] = "closed"]

LoadBeginFx ==
  StopFx
  \o (IF audioContext = 0 THEN <<>> ELSE <<Fx("close", "", audioContext)>>)
  \o <<Fx("new", "", Len(ctxState) + 1)>>

LoadBegin ==
  /\ Len(ctxState) < MaxCtx
  /\ \E st \in {"suspended", "running"} :
       ctxState' = Append(ClosePrevious(ctxState, audioContext), st)
  /\ orphans' = orphans \cup stopCurrentSources(sourceNodes)
  /\ sourceNodes' = <<>>
  /\ stemNames' = <<>>
  /\ stemGains' = <<>>
  /\ audioBuffers' = {}
  /\ gainNodes' = <<>>
  /\ nodeGain' = <<>>
  /\ isPlaying' = FALSE
  /\ pauseTime' = 0
  /\ audioContext' = Len(ctxState) + 1
  /\ clock' = 0
  /\ loads' = Append(loads, 1)
  /\ Log("LoadBegin", audioContext, LoadBeginFx)
  /\ UNCHANGED <<sliders, startTime, suppressVideoSeekHandler, videoVars,
                 pendingPlays, controlsEnabled, ipcQ, closeProjectorEnabled,
                 mainVars, tracing, backVars>>

\* renderer.js:292-304, one turn of the loop: the fetch and the decoding of
\* one stem succeed or fail
LoadFetch ==
  /\ \E k \in 1..Len(loads) :
       /\ loads[k] <= Len(PossibleStems)
       /\ LET stemName == PossibleStems[loads[k]] IN
          /\ loads' = [loads EXCEPT ![k] = @ + 1]
          /\ \/ /\ audioBuffers' = audioBuffers \cup {stemName}
                /\ stemNames' = Append(stemNames, stemName)
                /\ stemGains' = [n \in DOMAIN stemGains \cup {stemName} |->
                                   IF n = stemName THEN UnityGain
                                   ELSE stemGains[n]]
                /\ Log("LoadFetch", 1, <<>>)
             \/ /\ UNCHANGED <<audioBuffers, stemNames, stemGains>>
                /\ Log("LoadFetch", 0, <<>>)
  /\ UNCHANGED <<audioVars, gainNodes, nodeGain, sliders, transportVars,
                 videoVars, pendingPlays, controlsEnabled, ipcQ,
                 closeProjectorEnabled, mainVars, tracing, backVars>>

\* renderer.js:306-357
LoadFinish ==
  /\ \E k \in 1..Len(loads) :
       /\ loads[k] > Len(PossibleStems)
       /\ loads' = [i \in 1..(Len(loads) - 1) |->
                      IF i < k THEN loads[i] ELSE loads[i + 1]]
  /\ IF stemNames = <<>>
     THEN /\ UNCHANGED <<gainNodes, nodeGain, sliders, video, controlsEnabled>>
          /\ Log("LoadFinish", 0, <<>>)
     ELSE /\ gainNodes' = [n \in Range(stemNames) |-> audioContext]
          /\ nodeGain' = [n \in Range(stemNames) |-> stemGains[n]]
          /\ sliders' = Range(stemNames)
          /\ video' = [video EXCEPT !.muted = TRUE, !.volume = 0]
          /\ controlsEnabled' = TRUE
          /\ Log("LoadFinish", Len(stemNames), <<>>)
  /\ UNCHANGED <<audioVars, stemNames, stemGains, audioBuffers, transportVars,
                 seekedQ, pendingPlays, ipcQ, closeProjectorEnabled, mainVars,
                 tracing, backVars>>

\* renderer.js:48-51, the 'loadedmetadata' listener of the video
LoadedMetadata ==
  /\ video' = [video EXCEPT !.muted = TRUE, !.volume = 0]
  /\ UNCHANGED <<audioVars, stemVars, transportVars, seekedQ, pendingPlays,
                 loads, controlsEnabled, ipcQ, closeProjectorEnabled, mainVars,
                 hist, tracing, backVars>>

\* renderer.js:377-379: the values a range input with min 0, max 2 reports
SliderValues == {0, UnityGain, MaxGain}

\* renderer.js:388, stemGains[stemName] = newGain
SetGain_All(gains, stemName, newGain) ==
  [n \in DOMAIN gains \cup {stemName} |-> newGain]
SetGain(gains, stemName, newGain) ==
  [n \in DOMAIN gains \cup {stemName} |->
     IF n = stemName THEN newGain ELSE gains[n]]

\* renderer.js:386-393, the 'input' listener of the slider generateStemSliders
\* made for stemName; the slider stays in the page until the next
\* generateStemSliders
SliderInput(stemName, newGain) ==
  /\ stemName \in sliders
  /\ stemGains' = SetGain(stemGains, stemName, newGain)
  /\ nodeGain' = IF stemName \in DOMAIN gainNodes
                 THEN [nodeGain EXCEPT ![stemName] = newGain]
                 ELSE nodeGain
  /\ UNCHANGED <<audioVars, stemNames, audioBuffers, gainNodes, sliders,
                 transportVars, videoVars, pendingPlays, loads,
                 controlsEnabled, ipcQ, closeProjectorEnabled, mainVars, hist,
                 tracing, backVars>>

\* ---- the recorded stem order and layout (renderer.js:41-42) --------------
\* What the backend recorded for a stem set: a stem order and a channel
\* layout, either of which an answer may leave out.  Null stands for null and
\* for a missing key, NoDir for the null of a directory.
Null == <<>>
NoDir == "none"
StemSets == {"setA", "setB", "setC"}
RecordedOrder(dir) ==
  CASE dir = "setA" -> <<"vocals", "drums">>
    [] dir = "setB" -> <<"drums", "vocals">>
    [] dir = "setC" -> <<"vocals", "drums", "bass">>
RecordedLayout(dir) ==
  CASE dir = "setA" -> <<"2ch">>
    [] dir = "setB" -> <<"2ch-rev">>
    [] dir = "setC" -> <<"3ch">>
\* the answers about a stem set: a task result or an entry of /list-remuxed
SetData ==
  UNION {[separated_dir : {dir}, stem_order : {Null, RecordedOrder(dir)},
          channel_layout : {Null, RecordedLayout(dir)}] : dir \in StemSets}

\* renderer.js:288-290
PossibleStemsOf(backendStemOrder) ==
  IF backendStemOrder # Null THEN backendStemOrder ELSE Canonical

\* the manifest variables of the renderer after an answer was taken in;
\* loaded tells whether loadStemsForPlayback was called, and then possibleStems
\* and layoutUsed are what that call used
TakeIn(m, data, loaded) ==
  LET order == IF data.stem_order # Null THEN data.stem_order
               ELSE m.backendStemOrder
      layout == IF data.channel_layout # Null THEN data.channel_layout
                ELSE m.backendChannelLayout
  IN  [separatedDir |-> data.separated_dir,
       backendStemOrder |-> order,
       backendChannelLayout |-> layout,
       possibleStems |-> IF loaded THEN PossibleStemsOf(order)
                         ELSE m.possibleStems,
       layoutUsed |-> IF loaded THEN layout ELSE m.layoutUsed,
       loadedDir |-> IF loaded THEN data.separated_dir ELSE m.loadedDir]

NoManifest ==
  manifest = [separatedDir |-> NoDir, backendStemOrder |-> Null,
              backendChannelLayout |-> Null, possibleStems |-> Null,
              layoutUsed |-> Null, loadedDir |-> NoDir]

ManifestStep(data, loaded) ==
  /\ manifest' = TakeIn(manifest, data, loaded)
  /\ UNCHANGED <<fileReq, fileResp, mergeVars, poll, tasks, run, loopOwner,
                 httpVars, frontVars>>

\* renderer.js:194-212: the separation result; the stems are loaded when the
\* result names a remuxed file
SeparationResult ==
  \E data \in SetData, remuxed \in BOOLEAN : ManifestStep(data, remuxed)

\* renderer.js:244-253: the merge result is about the current separatedDir
MergeResultTaken ==
  /\ manifest.separatedDir # NoDir
  /\ \E data \in SetData :
       /\ data.separated_dir = manifest.separatedDir
       /\ ManifestStep(data, TRUE)

\* renderer.js:554-591
LoadRemuxedClick == \E data \in SetData : ManifestStep(data, TRUE)

\* ---- pollTaskProgress (renderer.js:507-526) --------------------------------
\* poll is the poller of one task: whether pollTaskProgress was called,
\* whether its interval timer is set, the status the task has on the server,
\* the GET /progress requests on their way (sent, or answered and not yet
\* received), the number of requests sent, and the number of times the
\* callback was handed a terminal status
NoPoll ==
  poll = [started |-> FALSE, timer |-> FALSE, status |-> "in_progress",
          flying |-> <<>>, sent |-> 0, handed |-> 0]

Without(q, k) == [i \in 1..(Len(q) - 1) |-> IF i < k THEN q[i] ELSE q[i + 1]]

\* renderer.js:507-508, setInterval
PollStart ==
  /\ ~poll.started
  /\ poll' = [poll EXCEPT !.started = TRUE, !.timer = TRUE]
  /\ UNCHANGED <<fileReq, fileResp, mergeVars, manifest, tasks, run, loopOwner,
                 httpVars, frontVars>>

\* renderer.js:508-510: the timer fires every second while it is set,
\* whether or not the answer to an earlier request has come, and sends a GET
PollTick ==
  /\ poll.timer /\ poll.sent < MaxPolls
  /\ poll' = [poll EXCEPT !.sent = @ + 1,
                          !.flying = Append(@, [stage |-> "sent",
                                                status |-> "none"])]
  /\ UNCHANGED <<fileReq, fileResp, mergeVars, manifest, tasks, run, loopOwner,
                 httpVars, frontVars>>

\* the background function of the task writes a terminal entry
TaskEnds ==
  /\ poll.status = "in_progress"
  /\ \E st \in {"completed", "failed"} : poll' = [poll EXCEPT !.status = st]
  /\ UNCHANGED <<fileReq, fileResp, mergeVars, manifest, tasks, run, loopOwner,
                 httpVars, frontVars>>

\* part_000:343-348 answers a request with the status the task has then; a
\* request that fails (no connection, or 404 after a cleanup) is an error
PollAnswered ==
  /\ \E k \in 1..Len(poll.flying), st \in {poll.status, "error"} :
       /\ poll.flying[k].stage = "sent"
       /\ poll' = [poll EXCEPT !.flying[k] = [stage |-> "answered",
                                              status |-> st]]
  /\ UNCHANGED <<fileReq, fileResp, mergeVars, manifest, tasks, run, loopOwner,
                 httpVars, frontVars>>

\* renderer.js:513-518 and 520-522: whether clearInterval is called for a
\* response
Clears(status) == status \in {"completed", "failed", "error"}

\* renderer.js:510-523: the rest of the timer callback, when the answer
\* arrives
PollResponse ==
  /\ \E k \in 1..Len(poll.flying) :
       /\ poll.flying[k].stage = "answered"
       /\ LET st == poll.flying[k].status IN
          poll' = [poll EXCEPT
                     !.flying = Without(@, k),
                     !.handed = IF st \in {"completed", "failed"}
                                THEN @ + 1 ELSE @,
                     !.timer = IF Clears(st) THEN FALSE ELSE @]
  /\ UNCHANGED <<fileReq, fileResp, mergeVars, manifest, tasks, run, loopOwner,
                 httpVars, frontVars>>

\* renderer.js:444-458
ProjectorClick ==
  /\ controlsEnabled /\ CanSend(1)
  /\ ipcQ' = Append(ipcQ, Ipc("open-projector", 0))
  /\ closeProjectorEnabled' = TRUE
  /\ Log("Projector", 0, <<IpcFx(Ipc("open-projector", 0))>>)
  /\ UNCHANGED <<audioVars, stemVars, transportVars, videoVars, pendingPlays,
                 loads, controlsEnabled, mainVars, tracing, backVars>>

CloseProjectorClick ==
  /\ closeProjectorEnabled /\ CanSend(1)
  /\ ipcQ' = Append(ipcQ, Ipc("close-projector", 0))
  /\ closeProjectorEnabled' = FALSE
  /\ Log("CloseProjector", 0, <<IpcFx(Ipc("close-projector", 0))>>)
  /\ UNCHANGED <<audioVars, stemVars, transportVars, videoVars, pendingPlays,
                 loads, controlsEnabled, mainVars, tracing, backVars>>

\* ---- main.js (src/README.md:140-250) and projector.html -------------------
NewWindow == [state |-> "loading", hasSrc |-> FALSE, playing |-> FALSE, time |-> 0]

\* webContents.send: the page receives the message once its script listens
WebContentsSend(w, ch, arg) ==
  IF wins[w].state = "ready"
  THEN Append(projQ, [win |-> w, ch |-> ch, arg |-> arg])
  ELSE projQ

\* README.md:214-230, the three command handlers: the queue to the page
\* afterwards, and whether the handler threw (webContents of null)
Forward_Unguarded(pw, ch, arg) ==
  IF pw # 0 THEN [q |-> WebContentsSend(pw, ch, arg), threw |-> FALSE]
  ELSE [q |-> projQ, threw |-> TRUE]
Forward(pw, ch, arg) ==
  IF pw # 0 THEN [q |-> WebContentsSend(pw, ch, arg), threw |-> FALSE]
  ELSE [q |-> projQ, threw |-> FALSE]

PageChannel(ch) ==
  CASE ch = "projector-play" -> "play"
    [] ch = "projector-pause" -> "pause"
    [] ch = "projector-seek" -> "seek"

MainRecv ==
  /\ ipcQ # <<>>
  /\ Len(projQ) <= MaxBacklog
  /\ (Head(ipcQ).ch = "open-projector" /\ projectorWindow = 0)
       => Len(wins) < MaxWin
  /\ ipcQ' = Tail(ipcQ)
  /\ LET m == Head(ipcQ) IN
     CASE m.ch = "open-projector" ->
            IF projectorWindow # 0
            THEN UNCHANGED mainVars
            ELSE /\ wins' = Append(wins, NewWindow)
                 /\ projectorWindow' = Len(wins) + 1
                 /\ UNCHANGED <<projQ, mainError>>
       [] m.ch = "close-projector" ->
            IF projectorWindow # 0
            THEN /\ wins' = [wins EXCEPT ![projectorWindow].state = "closing"]
                 /\ projectorWindow' = 0
                 /\ UNCHANGED <<projQ, mainError>>
            ELSE UNCHANGED mainVars
       [] OTHER ->
            /\ projQ' = Forward(projectorWindow, PageChannel(m.ch), m.arg).q
            /\ mainError' =
                 (mainError \/ Forward(projectorWindow, PageChannel(m.ch), m.arg).threw)
            /\ UNCHANGED <<projectorWindow, wins>>
  /\ UNCHANGED <<audioVars, stemVars, transportVars, videoVars, pendingPlays,
                 loads, controlsEnabled, closeProjectorEnabled, hist, tracing, backVars>>

\* README.md:205-207, 'did-finish-load' of a projector window
WinFinishLoad ==
  \E w \in 1..Len(wins) :
    /\ wins[w].state = "loading"
    /\ Len(projQ) <= MaxBacklog
    /\ IF projectorWindow = 0
       THEN /\ mainError' = TRUE
            /\ wins' = [wins EXCEPT ![w].state = "ready"]
            /\ UNCHANGED projQ
       ELSE /\ wins' = [wins EXCEPT ![w].state = "ready"]
            /\ projQ' = IF wins'[projectorWindow].state = "ready"
                        THEN Append(projQ, [win |-> projectorWindow,
                                            ch |-> "set-video-src", arg |-> 0])
                        ELSE projQ
            /\ UNCHANGED mainError
    /\ UNCHANGED <<projectorWindow, audioVars, stemVars, transportVars,
                   videoVars, pendingPlays, loads, controlsEnabled, ipcQ,
                   closeProjectorEnabled, hist, tracing, backVars>>

\* README.md:209-211, 'closed' of a projector window
WinClosed ==
  \E w \in 1..Len(wins) :
    /\ wins[w].state = "closing"
    /\ wins' = [wins EXCEPT ![w].state = "closed"]
    /\ projectorWindow' = 0
    /\ UNCHANGED <<projQ, mainError, audioVars, stemVars, transportVars,
                   videoVars, pendingPlays, loads, controlsEnabled, ipcQ,
                   closeProjectorEnabled, hist, tracing, backVars>>

\* the operator closes the projector window itself; 'closed' follows at once
UserCloseWindow ==
  \E w \in 1..Len(wins) :
    /\ wins[w].state \in {"loading", "ready"}
    /\ wins' = [wins EXCEPT ![w].state = "closed"]
    /\ projectorWindow' = 0
    /\ UNCHANGED <<projQ, mainError, audioVars, stemVars, transportVars,
                   videoVars, pendingPlays, loads, controlsEnabled, ipcQ,
                   closeProjectorEnabled, hist, tracing, backVars>>

\* part_000:1235-1249, the handlers of the projector page
PageHandle(win, ch, arg) ==
  CASE ch = "set-video-src" ->
         [win EXCEPT !.hasSrc = TRUE, !.playing = FALSE, !.time = 0]
    [] ch = "play" -> [win EXCEPT !.playing = win.hasSrc]
    [] ch = "pause" -> [win EXCEPT !.playing = FALSE]
    [] ch = "seek" -> [win EXCEPT !.time = arg]

ProjRecv ==
  /\ projQ # <<>>
  /\ projQ' = Tail(projQ)
  /\ LET m == Head(projQ) IN
     wins' = IF wins[m.win].state = "ready"
             THEN [wins EXCEPT ![m.win] = PageHandle(@, m.ch, m.arg)]
             ELSE wins
  /\ UNCHANGED <<projectorWindow, mainError, audioVars, stemVars,
                 transportVars, videoVars, pendingPlays, loads,
                 controlsEnabled, ipcQ, closeProjectorEnabled, hist, tracing, backVars>>


\* ---- main.py (src/unnamed/part_000:69-372), the task table ----------------
\* The server is one uvicorn process (README.md:67): handlers and background
\* tasks are coroutines of one event loop, and a coroutine gives the loop up
\* only at an await.  loopOwner is the task whose coroutine holds the loop
\* between two of its steps, 0 when the loop is free.
TaskIds == 1..MaxTasks
NoTask == [status |-> "none"]
Frac(n, d) == [n |-> n, d |-> d]
Leq(p, q) == p.n * q.d <= q.n * p.d
Terminal(e) == e.status \in {"completed", "failed"}

\* dict.update of part_000:171,173
Update(e, progress, message) ==
  [k \in DOMAIN e \cup {"progress", "message"} |->
     IF k = "progress" THEN progress
     ELSE IF k = "message" THEN message
     ELSE e[k]]

\* part_000:118-123: the defaults of the keys an entry does not hold
Progress(e) == IF "progress" \in DOMAIN e THEN e.progress ELSE Frac(0, 1)
ProgressResponse(e) ==
  [status |-> e.status,
   progress |-> Progress(e),
   message |-> IF "message" \in DOMAIN e THEN e.message ELSE <<>>,
   result |-> IF "result" \in DOMAIN e THEN e.result ELSE "None"]

InProgress(message) ==
  [status |-> "in_progress", progress |-> Frac(0, 1), message |-> message]
Completed(message, result) ==
  [status |-> "completed", progress |-> Frac(1, 1), message |-> message,
   result |-> result]
Failed(message) == [status |-> "failed", message |-> message]

\* what an endpoint answers: n flips with every answer, id is the task the
\* answer is about (0 for none), files tells whether the files the request
\* named existed
Answer(op, id, code, files) ==
  [n |-> 1 - reply.n, op |-> op, id |-> id, code |-> code, files |-> files]
NoAnswer == [n |-> 0, op |-> "none", id |-> 0, code |-> 0, files |-> TRUE]

\* what a request names: the title of the video behind the URL, the file to
\* separate, the directory to merge, the output filename of the export
Targets == {"a", "b"}
Idle == [kind |-> "none", pc |-> "idle", exc |-> <<>>, target |-> "none"]
BackendIdle ==
  /\ tasks = [id \in TaskIds |-> NoTask]
  /\ run = [id \in TaskIds |-> Idle]
  /\ loopOwner = 0
  /\ seen = [id \in TaskIds |-> NoTask]
  /\ reply = NoAnswer
  /\ cleared = {}

LoopFree == loopOwner = 0

\* part_000:322-323, 329-330, 336-339: the os.path checks of the request;
\* /download names no file
Validate_Skip(kind, exists) == TRUE
Validate(kind, exists) == kind = "download" \/ exists

\* The response runs its background tasks in the coroutine of the request,
\* right after it has written the answer, and awaits an async function
\* directly: the loop serves no other request between the answer and the
\* first await of the function.
Background_Detached(id) == 0
Background(id) == id

\* background_tasks.add_task of part_000:317,324,331,340; the id is a fresh
\* uuid4 or the one generateTaskId of renderer.js made
AddTask(kind) ==
  /\ LoopFree
  /\ \E id \in TaskIds, exists \in BOOLEAN, target \in Targets :
       /\ run[id].kind = "none"
       /\ \A j \in TaskIds : j < id => run[j].kind # "none"
       /\ kind = "download" => exists
       /\ IF Validate(kind, exists)
          THEN /\ run' = [run EXCEPT ![id] = [kind |-> kind, pc |-> "scheduled",
                                               exc |-> <<>>,
                                               target |-> target]]
               /\ reply' = Answer(kind, id, 200, exists)
               /\ loopOwner' = Background(id)
          ELSE /\ reply' = Answer(kind, 0, 404, exists)
               /\ UNCHANGED <<run, loopOwner>>
  /\ UNCHANGED <<tasks, seen, cleared, restVars>>

\* part_000:314-318
download_video_endpoint == AddTask("download")
\* part_000:320-325
separate_audio_endpoint == AddTask("separate")
\* part_000:327-332
merge_stems_endpoint == AddTask("merge")
\* part_000:334-341
mix_export_endpoint == AddTask("mix_export")

\* part_000:345-348: HTTPException(404) for an id the table does not hold;
\* ProgressResponse(**None) would be a TypeError, a 500
NotFound == [status |-> "404"]
ServerError == [status |-> "500"]
Respond_Unguarded(e) == IF e = NoTask THEN ServerError ELSE ProgressResponse(e)
Respond(e) == IF e = NoTask THEN NotFound ELSE ProgressResponse(e)
Code(r) == IF r = NotFound THEN 404 ELSE IF r = ServerError THEN 500 ELSE 200

\* part_000:343-348; seen holds the last answer about each task id
get_task_progress ==
  /\ LoopFree
  /\ \E id \in TaskIds :
       /\ seen' = [seen EXCEPT ![id] = Respond(tasks[id])]
       /\ reply' = Answer("progress", id, Code(Respond(tasks[id])), TRUE)
  /\ UNCHANGED <<tasks, run, loopOwner, cleared, restVars>>

\* part_000:363-371; cleared remembers the submitted ids a Cleanup erased
cleanup_files ==
  /\ LoopFree
  /\ tasks' = [id \in TaskIds |-> NoTask]
  /\ cleared' = cleared \cup {id \in TaskIds : run[id].kind # "none"}
  /\ reply' = Answer("cleanup", 0, 200, TRUE)
  /\ UNCHANGED <<run, loopOwner, seen, restVars>>

\* ---- serve_file (part_000:350-359) ---------------------------------------
\* A path is a sequence of segments, absolute or relative to the working
\* directory of the server; the disk holds the three base directories, the
\* server's own main.py next to them and a file outside the working directory.
Path(abs, segs) == [abs |-> abs, segs |-> segs]
Cwd == <<"app">>
DOWNLOADS_DIR == <<"downloads">>
SEPARATED_DIR == <<"separated">>
MIXES_DIR == <<"mixes">>
BaseDirs == <<DOWNLOADS_DIR, SEPARATED_DIR, MIXES_DIR>>
Dirs == {<<>>, Cwd} \cup {Cwd \o BaseDirs[i] : i \in 1..3}
Files == {Cwd \o <<"main.py">>, Cwd \o DOWNLOADS_DIR \o <<"a.mp4">>, <<"secret">>}
Names == {"..", "downloads", "a.mp4", "main.py", "secret"}
Requests ==
  {Path(abs, segs) : abs \in BOOLEAN,
                     segs \in UNION {[1..n -> Names] : n \in 0..MaxSegs}}

\* os.path.join: an absolute second part discards the first
Join(base_dir, filename) ==
  IF filename.abs THEN filename ELSE Path(FALSE, base_dir \o filename.segs)

\* the location a path names: '..' is the parent of a directory, every other
\* segment an entry of it; ENOENT when a step of the walk does not exist
ENOENT == <<"ENOENT">>
Parent(at) == IF at = <<>> THEN at ELSE SubSeq(at, 1, Len(at) - 1)
RECURSIVE Walk(_, _)
Walk(at, segs) ==
  IF segs = <<>> THEN at
  ELSE IF at \notin Dirs THEN ENOENT
  ELSE LET next == IF Head(segs) = ".." THEN Parent(at) ELSE at \o <<Head(segs)>>
       IN  IF next \in Dirs \cup Files THEN Walk(next, Tail(segs)) ELSE ENOENT
Locate(path) == Walk(IF path.abs THEN <<>> ELSE Cwd, path.segs)
\* os.path.exists(file_path) and os.path.isfile(file_path)
IsFile(path) == Locate(path) \in Files

FileResponse(at) == [code |-> 200, at |-> at]
FileNotFound == [code |-> 404, at |-> ENOENT]
NotAsked == [code |-> 0, at |-> ENOENT]

\* part_000:354-359: the first base directory under which the joined path is
\* a file
serve_file(filename) ==
  LET hits == {i \in 1..3 : IsFile(Join(BaseDirs[i], filename))}
  IN  IF hits = {} THEN FileNotFound
      ELSE FileResponse(Locate(Join(BaseDirs[CHOOSE i \in hits :
                                               \A j \in hits : i <= j],
                                    filename)))

NoFileRequest == fileReq = Path(FALSE, <<>>) /\ fileResp = NotAsked

\* GET /files/{filename:path}
ServeFile ==
  /\ fileResp = NotAsked
  /\ fileResp' = serve_file(fileReq)
  /\ UNCHANGED <<fileReq, mergeVars, manifest, poll, tasks, run, loopOwner, httpVars,
                 frontVars>>

\* the exceptions a body raises: the text of str(e), for ffmpeg.Error the
\* stderr of the tool
Raises(kind) ==
  CASE kind = "download" -> {<<"network">>}
    [] kind = "separate" -> {<<"Demucs separation failed: ", "oom">>,
                             <<"Demucs did not create an output directory.">>}
    [] kind = "merge" -> {<<"No WAV stem files found">>,
                          <<"Sample rate mismatch">>}
    [] kind = "mix_export" -> {<<"ffmpeg.Error", "stderr">>, <<"io">>}

\* part_000:162-163, 214-215, 250-251, 307-310: what the except clause of a
\* background function writes for the exception e
Prefix(kind, e) ==
  CASE kind = "download" -> "Download failed: "
    [] kind = "separate" -> "Separation failed: "
    [] kind = "merge" -> "Stem merging failed: "
    [] kind = "mix_export" ->
         IF Head(e) = "ffmpeg.Error" THEN "FFmpeg error during mix export: "
         ELSE "Mix export failed: "
ErrorText(e) == IF Head(e) = "ffmpeg.Error" THEN Tail(e) ELSE e
Caught_NoText(kind, e) == Failed(<<Prefix(kind, e)>>)
Caught(kind, e) == Failed(<<Prefix(kind, e)>> \o ErrorText(e))

\* part_000:144-163: do_download has no await, and extract_info is an
\* ordinary call, so the coroutine holds the loop from its first line to its
\* last
LoopHolder_InThread(id) == 0
LoopHolder(id) == id

\* part_000:144-146
DownloadStart(id) ==
  /\ loopOwner = Background(id)
  /\ run[id].kind = "download" /\ run[id].pc = "scheduled"
  /\ tasks' = [tasks EXCEPT ![id] = InProgress(<<"Starting download...">>)]
  /\ run' = [run EXCEPT ![id].pc = "downloading"]
  /\ loopOwner' = LoopHolder(id)
  /\ UNCHANGED <<httpVars, restVars>>

\* part_000:165-173; total 0 and estimate 0 stand for None
HookProgress(d) ==
  LET total_bytes == IF d.total # 0 THEN d.total ELSE d.estimate
  IN  Frac(d.downloaded, total_bytes)

update_download_progress(e, d) ==
  IF d.status = "downloading"
  THEN IF d.total # 0 \/ d.estimate # 0
       THEN Update(e, HookProgress(d), <<"Downloading">>)
       ELSE e
  ELSE IF d.status = "finished"
  THEN Update(e, Frac(1, 1), <<"Post-processing download...">>)
  ELSE e

\* what yt-dlp hands to a progress hook
HookInputs ==
  [status : {"downloading", "finished"}, total : {0, MaxBytes},
   estimate : 0..MaxBytes, downloaded : 0..MaxBytes]

\* part_000:152, the progress hook called from inside extract_info
DownloadHook(id) ==
  /\ loopOwner = LoopHolder(id)
  /\ run[id].kind = "download" /\ run[id].pc = "downloading"
  /\ \E d \in HookInputs :
       tasks' = [tasks EXCEPT ![id] = update_download_progress(@, d)]
  /\ UNCHANGED <<run, loopOwner, httpVars, restVars>>

\* part_000:158-163
DownloadEnd(id) ==
  /\ loopOwner = LoopHolder(id)
  /\ run[id].kind = "download" /\ run[id].pc = "downloading"
  /\ \/ /\ tasks' = [tasks EXCEPT ![id] =
                       Completed(<<"Download complete.">>, "video_path")]
        /\ run' = [run EXCEPT ![id].pc = "done"]
     \/ \E e \in Raises("download") :
          /\ tasks' = [tasks EXCEPT ![id] = Caught("download", e)]
          /\ run' = [run EXCEPT ![id].pc = "done", ![id].exc = e]
  /\ loopOwner' = 0
  /\ UNCHANGED <<httpVars, restVars>>

\* part_000:176-199, do_separate up to 'await process.communicate()'
SeparateStart(id) ==
  /\ loopOwner = Background(id)
  /\ run[id].kind = "separate" /\ run[id].pc = "scheduled"
  /\ tasks' = [tasks EXCEPT ![id] = InProgress(<<"Starting separation...">>)]
  /\ run' = [run EXCEPT ![id].pc = "waiting"]
  /\ loopOwner' = 0
  /\ UNCHANGED <<httpVars, restVars>>

\* part_000:201-213, the statements after the await up to the first raise
\* or to the end of the try block
SeparateExit(id) ==
  /\ LoopFree
  /\ run[id].kind = "separate" /\ run[id].pc = "waiting"
  /\ \E returncode \in {0, 1}, stderr \in {"oom"}, dirs \in {0, 1} :
       IF returncode # 0
       THEN /\ tasks' = [tasks EXCEPT ![id] =
                           Failed(<<"Separation failed: ", stderr>>)]
            /\ run' = [run EXCEPT ![id].pc = "raised",
                         ![id].exc = <<"Demucs separation failed: ", stderr>>]
            /\ loopOwner' = id
       ELSE IF dirs = 0
       THEN /\ run' = [run EXCEPT ![id].pc = "raised",
                         ![id].exc = <<"Demucs did not create an output directory.">>]
            /\ loopOwner' = id
            /\ UNCHANGED tasks
       ELSE /\ tasks' = [tasks EXCEPT ![id] =
                           Completed(<<"Separation complete.">>, "separated_dir")]
            /\ run' = [run EXCEPT ![id].pc = "done"]
            /\ UNCHANGED loopOwner
  /\ UNCHANGED <<httpVars, restVars>>

\* part_000:214-215, the except clause that the raise of line 203 or 209
\* reaches
SeparateExcept(id) ==
  /\ loopOwner = id
  /\ run[id].kind = "separate" /\ run[id].pc = "raised"
  /\ tasks' = [tasks EXCEPT ![id] = Caught("separate", run[id].exc)]
  /\ run' = [run EXCEPT ![id].pc = "done"]
  /\ loopOwner' = 0
  /\ UNCHANGED <<httpVars, restVars>>

\* part_000:217-219 and 253-255: do_merge_stems and do_mix_export have no
\* await either
StartMessage(kind) ==
  IF kind = "merge" THEN <<"Merging stems...">> ELSE <<"Starting mix export...">>

SyncStart(id) ==
  /\ loopOwner = Background(id)
  /\ run[id].kind \in {"merge", "mix_export"} /\ run[id].pc = "scheduled"
  /\ tasks' = [tasks EXCEPT ![id] = InProgress(StartMessage(run[id].kind))]
  /\ run' = [run EXCEPT ![id].pc = "running"]
  /\ loopOwner' = id
  /\ UNCHANGED <<httpVars, restVars>>

\* part_000:249-251 and 306-310
SyncDone(kind) ==
  IF kind = "merge"
  THEN Completed(<<"Stems merged successfully.">>, "multichannel_wav_path")
  ELSE Completed(<<"Mix export complete.">>, "output_path")

SyncEnd(id) ==
  /\ loopOwner = id
  /\ run[id].kind \in {"merge", "mix_export"} /\ run[id].pc = "running"
  /\ \/ /\ tasks' = [tasks EXCEPT ![id] = SyncDone(run[id].kind)]
        /\ run' = [run EXCEPT ![id].pc = "done"]
     \/ \E e \in Raises(run[id].kind) :
          /\ tasks' = [tasks EXCEPT ![id] = Caught(run[id].kind, e)]
          /\ run' = [run EXCEPT ![id].pc = "done", ![id].exc = e]
  /\ loopOwner' = 0
  /\ UNCHANGED <<httpVars, restVars>>

\* ---- the files a task writes ----------------------------------------------
\* uuid.uuid4().hex of part_000:182 and 291: a value no other call returns,
\* here the number of the task that made the call
Uuid_None(id) == 0
Uuid(id) == id

\* part_000:150 (the outtmpl of yt-dlp), 182-190 (the output directory handed
\* to demucs, which stands for every file below it), 246-247, 291-292 and
\* 294-302: directory, name and the unique part of the name
Writes(id) ==
  LET r == run[id] IN
  CASE r.kind = "download" -> {<<"downloads", r.target, 0>>}
    [] r.kind = "separate" -> {<<"separated", r.target, Uuid(id)>>}
    [] r.kind = "merge" -> {<<r.target, "multichannel_stems.wav", 0>>}
    [] r.kind = "mix_export" -> {<<"mixes", "temp_mixed_audio", Uuid(id)>>,
                                 <<"mixes", r.target, 0>>}
    [] OTHER -> {}

\* ---- do_merge_stems (part_000:217-251) as a function of the directory -----
\* A file of the directory: its name (a stem name stands for name + '.wav',
\* 'notes' for a file of another kind), and what soundfile reads from it: the
\* sample rate, the number of channels and one sample value per frame.
WavNames == {"vocals", "drums", "bass"}
Rates == {44100, 48000}
Samples == {-1, 0, 1}
DirFiles ==
  [name : WavNames \cup {"notes"}, samplerate : Rates, channels : {1, 2},
   data : UNION {[1..n -> Samples] : n \in 1..MaxFrames}]
\* os.listdir returns the entries in arbitrary order
Listings ==
  {l \in UNION {[1..n -> DirFiles] : n \in 0..MaxStems} :
     \A i, j \in 1..Len(l) : l[i].name = l[j].name => i = j}

\* part_000:221: f.endswith('.wav')
OutputName == "multichannel_stems"
IsWav(f) == f.name \in WavNames \cup {OutputName}
stem_files(listing) == SelectSeq(listing, IsWav)

\* part_000:232-234: the stems whose rate is not the first stem's
Mismatch_Skipped(files) == {}
Mismatch(files) ==
  {i \in 1..Len(files) : files[i].samplerate # files[1].samplerate}

\* part_000:235-240 for the one-dimensional array of a mono file
Zeros(k) == [i \in 1..k |-> 0]
Fit(data, num_frames) ==
  IF Len(data) < num_frames THEN data \o Zeros(num_frames - Len(data))
  ELSE SubSeq(data, 1, num_frames)

\* the shape of the array after part_000:235-240: sf.read gives (frames,) for
\* a mono file and (frames, channels) for any other; np.pad with the pad
\* width (0, k) pads every axis, data[:num_frames] cuts the first
Shape(f, num_frames) ==
  IF f.channels = 1 THEN <<num_frames>>
  ELSE IF Len(f.data) < num_frames
  THEN <<num_frames, f.channels + (num_frames - Len(f.data))>>
  ELSE <<num_frames, f.channels>>

\* multichannel_stems.wav: absent, opened by sf.write that then raised, or
\* written with one channel per stem
NoFile == [state |-> "absent"]
Opened(samplerate, channels) ==
  [state |-> "opened", samplerate |-> samplerate, channels |-> channels]
Container(order, samplerate, data) ==
  [state |-> "written", order |-> order, samplerate |-> samplerate,
   channels |-> Len(order), data |-> data]
MergeResult(entry, file) == [entry |-> entry, file |-> file]
NotMerged == MergeResult(NoTask, NoFile)

\* part_000:220-251.  np.stack raises for arrays of different shapes; of
\* two-dimensional arrays it makes a three-dimensional one, which sf.write
\* refuses after it has opened the file.
do_merge_stems(listing) ==
  LET files == stem_files(listing)
  IN  IF files = <<>>
      THEN MergeResult(Caught("merge", <<"No WAV stem files found">>), NoFile)
      ELSE
        LET samplerate == files[1].samplerate
            num_frames == Len(files[1].data)
            bad == Mismatch(files)
            shapes == {Shape(files[i], num_frames) : i \in 1..Len(files)}
        IN  IF bad # {}
            THEN MergeResult(
                   Caught("merge",
                          <<"Sample rate mismatch for ",
                            files[CHOOSE i \in bad : \A j \in bad : i <= j].name>>),
                   NoFile)
            ELSE IF Cardinality(shapes) > 1
            THEN MergeResult(
                   Caught("merge", <<"all input arrays must have the same shape">>),
                   NoFile)
            ELSE IF shapes # {<<num_frames>>}
            THEN MergeResult(Caught("merge", <<"Invalid shape">>),
                             Opened(samplerate, Len(files)))
            ELSE MergeResult(
                   SyncDone("merge"),
                   Container([i \in 1..Len(files) |-> files[i].name],
                             samplerate,
                             [i \in 1..Len(files) |->
                                Fit(files[i].data, num_frames)]))

\* ---- do_mix_export (part_000:253-310) as a function of its inputs ---------
\* A sample 1 is full scale, a gain is in hundredths (UnityGain is 1.0), so a
\* mixed frame is in hundredths of full scale.
GainNames == {"vocals", "ghost"}
GainValues == {0, UnityGain, MaxGain}
GainMaps == UNION {[D -> GainValues] : D \in SUBSET GainNames}
\* part_000:282: gains.get(stem_name, 1.0)
GainOf(gains, stem_name) ==
  IF stem_name \in DOMAIN gains THEN gains[stem_name] ELSE UnityGain

\* part_000:275-277: the .wav files of the directory but multichannel_stems.wav
IsStem(f) == IsWav(f) /\ f.name # OutputName
individual_stem_paths(listing) == SelectSeq(listing, IsStem)

\* the orders in which a later os.listdir may return the same entries
Reorderings(listing) ==
  {[i \in 1..Len(listing) |-> listing[p[i]]] :
     p \in {q \in [1..Len(listing) -> 1..Len(listing)] :
              \A i, j \in 1..Len(listing) : q[i] = q[j] => i = j}}

\* part_000:283: whether 'mixed_audio_sum += stem_data * gain' is defined for
\* a sum of num_frames frames: a one-dimensional array of the same length, or
\* of length one, which numpy repeats for every frame
Addable(f, num_frames) ==
  f.channels = 1 /\ Len(f.data) \in {1, num_frames}
Broadcast(data, num_frames) ==
  [k \in 1..num_frames |-> IF Len(data) = 1 THEN data[1] ELSE data[k]]

RECURSIVE MixedFrame(_, _, _, _)
MixedFrame(stems, gains, num_frames, k) ==
  IF stems = <<>> THEN 0
  ELSE Broadcast(Head(stems).data, num_frames)[k] * GainOf(gains, Head(stems).name)
         + MixedFrame(Tail(stems), gains, num_frames, k)

Abs(x) == IF x < 0 THEN -x ELSE x
\* part_000:286: np.max(np.abs(mixed_audio_sum))
Peak(mixed) ==
  CHOOSE m \in {Abs(mixed[k]) : k \in 1..Len(mixed)} :
    \A k \in 1..Len(mixed) : Abs(mixed[k]) <= m
\* part_000:287-288; a frame of the result is the fraction n / d of full scale
Normalize_Skip(mixed) == [k \in 1..Len(mixed) |-> Frac(mixed[k], UnityGain)]
Normalize(mixed) ==
  IF Peak(mixed) > UnityGain
  THEN [k \in 1..Len(mixed) |-> Frac(mixed[k], Peak(mixed))]
  ELSE [k \in 1..Len(mixed) |-> Frac(mixed[k], UnityGain)]

\* the gains of the request, the task entry, the sum before line 285 and the
\* audio sf.write wrote to the temporary file
MixResult(gains, entry, mixed, audio) ==
  [gains |-> gains, entry |-> entry, mixed |-> mixed, audio |-> audio]
NotMixed == MixResult(<<>>, NoTask, <<>>, <<>>)

\* part_000:256-310.  file is multichannel_stems.wav, listing the os.listdir
\* of its directory, ffmpegOk whether the remux of lines 298-302 succeeds.
do_mix_export(listing, file, gains, ffmpegOk) ==
  LET stems == individual_stem_paths(listing)
  IN  IF file.channels = 1
      THEN MixResult(gains, Caught("mix_export", <<"tuple index out of range">>),
                     <<>>, <<>>)
      ELSE IF stems = <<>>
      THEN MixResult(gains, Caught("mix_export", <<"list index out of range">>),
                     <<>>, <<>>)
      ELSE
        LET num_frames == Len(stems[1].data)
            mixed == [k \in 1..num_frames |->
                        MixedFrame(stems, gains, num_frames, k)]
        IN  IF \E i \in 1..Len(stems) : ~Addable(stems[i], num_frames)
            THEN MixResult(
                   gains,
                   Caught("mix_export",
                          <<"operands could not be broadcast together">>),
                   <<>>, <<>>)
            ELSE IF ~ffmpegOk
            THEN MixResult(gains, Caught("mix_export", <<"ffmpeg.Error", "stderr">>),
                           mixed, Normalize(mixed))
            ELSE MixResult(gains, SyncDone("mix_export"), mixed, Normalize(mixed))

NoMerge ==
  /\ stemDir = <<>> /\ mergeOut = NotMerged /\ remerge = NotMerged
  /\ mixOut = NotMixed

MergeStems ==
  /\ mergeOut = NotMerged
  /\ mergeOut' = do_merge_stems(stemDir)
  /\ UNCHANGED <<stemDir, remerge, mixOut, fileReq, fileResp, manifest, poll, tasks, run,
                 loopOwner, httpVars, frontVars>>

\* part_000:246-247: the file a merge left in separated_dir, as the next
\* os.listdir and sf.read find it: the channels of a written container hold
\* the same number of frames, a file that sf.write only opened holds none
OutputFile(file) ==
  [name |-> OutputName, samplerate |-> file.samplerate,
   channels |-> file.channels,
   data |-> IF file.state = "written" THEN file.data[1] ELSE <<>>]
\* the listings of the directory after the merge: the new file at any place
ListingsAfter(listing, file) ==
  IF file.state = "absent" THEN {listing}
  ELSE {SubSeq(listing, 1, k) \o <<OutputFile(file)>>
          \o SubSeq(listing, k + 1, Len(listing)) : k \in 0..Len(listing)}

\* a second POST /merge for the same separated_dir
MergeAgain ==
  /\ mergeOut # NotMerged /\ remerge = NotMerged
  /\ \E listing \in ListingsAfter(stemDir, mergeOut.file) :
       remerge' = do_merge_stems(listing)
  /\ UNCHANGED <<stemDir, mergeOut, mixOut, fileReq, fileResp, manifest, poll, tasks, run,
                 loopOwner, httpVars, frontVars>>

\* the multichannel_stems.wav the directory holds
CurrentFile == IF remerge.file.state = "written" THEN remerge.file ELSE mergeOut.file

\* POST /mix-export (part_000:334-341) for a multichannel file that exists,
\* and the do_mix_export it schedules
MixExport ==
  /\ mixOut = NotMixed
  /\ CurrentFile.state # "absent"
  /\ \E gains \in GainMaps, ffmpegOk \in BOOLEAN,
        listing \in Reorderings(stemDir) :
       mixOut' = do_mix_export(listing, CurrentFile, gains, ffmpegOk)
  /\ UNCHANGED <<stemDir, mergeOut, remerge, fileReq, fileResp, manifest, poll, tasks, run,
                 loopOwner, httpVars, frontVars>>

\* renderer.js:45-46; a video element starts unmuted at full volume
VideoSetup_Default == [muted |-> FALSE, volume |-> UnityGain]
VideoSetup == [muted |-> TRUE, volume |-> 0]

FrontIdle ==
  /\ audioContext = 0
  /\ ctxState = <<>>
  /\ clock = 0
  /\ stemNames = <<>>
  /\ stemGains = <<>>
  /\ audioBuffers = {}
  /\ gainNodes = <<>>
  /\ nodeGain = <<>>
  /\ sliders = {}
  /\ sourceNodes = <<>>
  /\ orphans = {}
  /\ isPlaying = FALSE
  /\ startTime = 0
  /\ pauseTime = 0
  /\ suppressVideoSeekHandler = FALSE
  /\ video = [currentTime |-> 0, paused |-> TRUE, seeking |-> FALSE,
              muted |-> VideoSetup.muted, volume |-> VideoSetup.volume]
  /\ seekedQ = 0
  /\ pendingPlays = <<>>
  /\ loads = <<>>
  /\ controlsEnabled = FALSE
  /\ ipcQ = <<>>
  /\ closeProjectorEnabled = FALSE
  /\ projectorWindow = 0
  /\ wins = <<>>
  /\ projQ = <<>>
  /\ mainError = FALSE
  /\ hist = <<>>
  /\ tracing = FALSE

Init == FrontIdle /\ BackendIdle /\ NoFileRequest /\ NoMerge /\ NoManifest /\ NoPoll

\* the state after one stem set was loaded (LoadBegin, LoadFetch of every
\* stem, LoadFinish), from which the recorded runs start
Loaded(tr) ==
  /\ audioContext = 1
  /\ ctxState \in {<<"suspended">>, <<"running">>}
  /\ clock = 0
  /\ stemNames = PossibleStems
  /\ stemGains = [n \in Range(PossibleStems) |-> UnityGain]
  /\ audioBuffers = Range(PossibleStems)
  /\ gainNodes = [n \in Range(PossibleStems) |-> 1]
  /\ nodeGain = [n \in Range(PossibleStems) |-> UnityGain]
  /\ sliders = Range(PossibleStems)
  /\ sourceNodes = <<>>
  /\ orphans = {}
  /\ isPlaying = FALSE
  /\ startTime = 0
  /\ pauseTime = 0
  /\ suppressVideoSeekHandler = FALSE
  /\ video = [currentTime |-> 0, paused |-> TRUE, seeking |-> FALSE,
              muted |-> TRUE, volume |-> 0]
  /\ seekedQ = 0
  /\ pendingPlays = <<>>
  /\ loads = <<>>
  /\ controlsEnabled = TRUE
  /\ ipcQ = <<>>
  /\ closeProjectorEnabled = FALSE
  /\ projectorWindow = 0
  /\ wins = <<>>
  /\ projQ = <<>>
  /\ mainError = FALSE
  /\ hist = <<>>
  /\ tracing = tr
  /\ BackendIdle /\ NoFileRequest /\ NoMerge /\ NoManifest /\ NoPoll

InitTrace == Loaded(TRUE)

Tick ==
  /\ audioContext # 0
  /\ ctxState[audioContext] = "running"
  /\ clock < MaxClock
  /\ clock' = clock + 1
  /\ UNCHANGED <<audioContext, ctxState, stemVars, transportVars, videoVars,
                 pendingPlays, loads, controlsEnabled, ipcQ,
                 closeProjectorEnabled, mainVars, hist, tracing, backVars>>

InitBackend == Init

NextBackend ==
  \/ download_video_endpoint
  \/ separate_audio_endpoint
  \/ merge_stems_endpoint
  \/ mix_export_endpoint
  \/ get_task_progress
  \/ cleanup_files
  \/ \E id \in TaskIds : DownloadStart(id)
  \/ \E id \in TaskIds : DownloadHook(id)
  \/ \E id \in TaskIds : DownloadEnd(id)
  \/ \E id \in TaskIds : SeparateStart(id)
  \/ \E id \in TaskIds : SeparateExit(id)
  \/ \E id \in TaskIds : SeparateExcept(id)
  \/ \E id \in TaskIds : SyncStart(id)
  \/ \E id \in TaskIds : SyncEnd(id)

NextTransport ==
  \/ Tick
  \/ PlayClick
  \/ ResumeDone
  \/ PauseClick
  \/ StopClick
  \/ \E T \in 0..MaxTime : UserSeek(T)
  \/ VideoSeekDone
  \/ SeekedEvent
  \/ MainRecv

Next ==
  \/ Tick
  \/ PlayClick
  \/ ResumeDone
  \/ PauseClick
  \/ StopClick
  \/ \E T \in 0..MaxTime : UserSeek(T)
  \/ VideoSeekDone
  \/ SeekedEvent
  \/ LoadBegin
  \/ LoadFetch
  \/ LoadFinish
  \/ LoadedMetadata
  \/ MainRecv

NextProjector ==
  \/ NextTransport
  \/ ProjectorClick
  \/ CloseProjectorClick
  \/ WinFinishLoad
  \/ WinClosed
  \/ UserCloseWindow
  \/ ProjRecv

InitProjector == Loaded(FALSE)

Spec == Init /\ [][Next]_vars
SpecTrace == InitTrace /\ [][NextTransport]_vars
SpecProjector == InitProjector /\ [][NextProjector]_vars
SpecBackend == InitBackend /\ [][NextBackend]_vars

NextMixer ==
  \/ LoadBegin
  \/ LoadFetch
  \/ LoadFinish
  \/ \E stemName \in Range(PossibleStems), newGain \in SliderValues :
       SliderInput(stemName, newGain)
  \/ PlayClick
  \/ ResumeDone
  \/ PauseClick
  \/ StopClick
  \/ MainRecv
SpecMixer == Init /\ [][NextMixer]_vars

NextPoll == PollStart \/ PollTick \/ TaskEnds \/ PollAnswered \/ PollResponse
SpecPoll == Init /\ [][NextPoll]_vars

NextManifest == SeparationResult \/ MergeResultTaken \/ LoadRemuxedClick
SpecManifest == Init /\ [][NextManifest]_vars

InitFiles ==
  /\ FrontIdle /\ BackendIdle /\ NoMerge /\ NoManifest /\ NoPoll
  /\ fileReq \in Requests
  /\ fileResp = NotAsked
NextFiles == ServeFile
SpecFiles == InitFiles /\ [][NextFiles]_vars

InitMerge ==
  /\ FrontIdle /\ BackendIdle /\ NoFileRequest /\ NoManifest /\ NoPoll
  /\ stemDir \in Listings
  /\ mergeOut = NotMerged /\ remerge = NotMerged /\ mixOut = NotMixed
NextMerge == MergeStems \/ MergeAgain \/ MixExport
SpecMerge == InitMerge /\ [][NextMerge]_vars

\* ---- the claims -----------------------------------------------------------
Count(fx, f) == Cardinality({i \in 1..Len(fx) : fx[i] = f})
Did(e, f) == \E i \in 1..Len(e.fx) : e.fx[i] = f
\* the handler run started the sources and the video (StartBody ran)
Started(e) == e.op \in {"Play", "Resumed"} /\ Did(e, Fx("vplay", "", 0))
\* the k-th of the last three handler runs
Recent(k) == hist[Len(hist) - 3 + k]
VideoQuiet == Owed = 0

\* the run Play (from position 0), Pause, Play
RoundTrip ==
  /\ tracing /\ Len(hist) >= 3
  /\ Started(Recent(1)) /\ Recent(1).arg = 0
  /\ Recent(2).op = "Pause" /\ Recent(2).fx # <<>>
  /\ Recent(3).op = "Play" /\ Started(Recent(3))
Elapsed == Recent(2).at - Recent(1).at

SeekThenPlay ==
  /\ tracing /\ Len(hist) >= 3
  /\ Recent(1).op = "Seeked" /\ Recent(1).owed = 1
  /\ Recent(1).fx = <<Fx("ipc", "projector-seek", Recent(1).arg)>>
  /\ Recent(2).op = "Play" /\ Started(Recent(2)) /\ Recent(2).owed = 0
  /\ Recent(3).op = "Seeked" /\ Recent(3).owed = 1
SeekTarget == Recent(1).arg
SeeksIssued(f) ==
  Count(Recent(1).fx, f) + Count(Recent(2).fx, f) + Count(Recent(3).fx, f)

\* C2 as stated: over the seek handler and the Play handler the video gets
\* exactly one synchronizer-issued seek to T and the projector exactly one
\* 'projector-seek' T, and the 'seeked' that follows triggers nothing.
C2_SeekOnceEach ==
  SeekThenPlay =>
    /\ SeeksIssued(Fx("vseek", "", SeekTarget)) = 1
    /\ SeeksIssued(Fx("ipc", "projector-seek", SeekTarget)) = 1
    /\ Recent(3).fx = <<Fx("suppressed", "", 0)>>
    /\ VideoQuiet

\* a paused seek to a position other than 0, then Play, then its 'seeked'
C2_Witness == SeekThenPlay /\ SeekTarget >= 1

\* C3: once a user seek to T was followed by an accepted Play and every
\* pending event has been handled, the sources that play were started at T
\* (at the end guard of the stem when T lies past it) and pauseTime is T.
C3_PlayObservesSeek ==
  (/\ tracing /\ Len(hist) >= 2
   /\ \E i \in 1..Len(hist) : \E j \in (i + 1)..Len(hist) :
        /\ hist[i].op = "UserSeek"
        /\ hist[j].op = "Play" /\ hist[j].fx # <<>>
        /\ \A k \in (i + 1)..Len(hist) :
             k # j => hist[k].op \in {"Seeked", "Resumed"}
   /\ VideoQuiet /\ pendingPlays = <<>> /\ isPlaying)
  => \E i \in 1..Len(hist) :
       /\ hist[i].op = "UserSeek"
       /\ \A k \in (i + 1)..Len(hist) : hist[k].op # "UserSeek"
       /\ pauseTime = hist[i].arg
       /\ \A n \in 1..Len(sourceNodes) :
            sourceNodes[n].offset =
              Min(hist[i].arg, Max(0, Duration(sourceNodes[n].stem) - EndGuard))

\* C4: when Pause or Stop is clicked while the start of a Play is pending at
\* 'await audioContext.resume()', then after both have finished the transport
\* is not Playing, has no source, the video is paused and, for Stop,
\* pauseTime is 0.
C4_LastWriterWins ==
  (/\ tracing /\ Len(hist) >= 3
   /\ Recent(1).op = "Play" /\ Recent(1).fx = <<Fx("resume", "", 0)>>
   /\ Recent(2).op \in {"Pause", "Stop"}
   /\ Recent(3).op = "Resumed")
  => /\ ~isPlaying
     /\ sourceNodes = <<>>
     /\ video.paused
     /\ Recent(2).op = "Stop" => pauseTime = 0

\* C5: whenever a load replaces the playback context, the previous context
\* has been closed and every source stopped in the same handler, and in every
\* state no source that was started and not stopped is left outside
\* sourceNodes or belongs to another context than the current one.
C5_LoadCancelsOld ==
  /\ [](/\ orphans = {}
        /\ \A n \in 1..Len(sourceNodes) : sourceNodes[n].ctx = audioContext
        /\ \A c \in 1..Len(ctxState) : c # audioContext => ctxState[c] = "closed")
  /\ [][audioContext' # audioContext =>
          /\ sourceNodes' = <<>>
          /\ orphans' = {}
          /\ audioContext # 0 => ctxState'[audioContext] = "closed"
          /\ ctxState'[audioContext'] # "closed"]_vars

C5_Witness ==
  /\ audioContext = 2 /\ ctxState[1] = "closed"
  /\ ~video.paused /\ ~isPlaying /\ sourceNodes = <<>> /\ pendingPlays = <<>>

\* C6: with every pending callback handled, the main video is playing
\* exactly when the transport is Playing.
C6_VideoLockstep ==
  (VideoQuiet /\ pendingPlays = <<>> /\ loads = <<>>)
    => (~video.paused <=> isPlaying)

\* C7: with a projector window open and loaded and nothing in flight, the
\* projector video plays exactly when the transport is Playing and stands at
\* the position last commanded to the main video.
C7_ProjectorInSync ==
  (/\ projectorWindow # 0
   /\ wins[projectorWindow].state = "ready" /\ wins[projectorWindow].hasSrc
   /\ ipcQ = <<>> /\ projQ = <<>> /\ VideoQuiet /\ pendingPlays = <<>>)
  => /\ wins[projectorWindow].playing <=> isPlaying
     /\ wins[projectorWindow].time = video.currentTime

\* C8: when the main process handles projector-play, projector-pause,
\* projector-seek or close-projector and no projector window exists, nothing
\* of the main process changes, no message goes to a page and no error is
\* raised; the renderer's send is complete without any step of the main
\* process.
C8_NoProjectorNoOp ==
  [][/\ (/\ ipcQ # <<>> /\ ipcQ' = Tail(ipcQ)
         /\ projectorWindow = 0
         /\ Head(ipcQ).ch \in {"projector-play", "projector-pause",
                               "projector-seek", "close-projector"})
          => /\ UNCHANGED <<projectorWindow, wins, projQ>>
             /\ mainError' = mainError
     /\ Len(ipcQ') > Len(ipcQ) => UNCHANGED mainVars]_vars

C8_Witness ==
  /\ isPlaying /\ ipcQ = <<>> /\ projectorWindow = 0 /\ wins = <<>>
  /\ ~mainError

\* C9: once the entry of a task is Completed or Failed, no later write of the
\* task's execution (a step in which no endpoint answers) changes its status,
\* message, progress or result.
C9_TerminalKept ==
  [][reply'.n = reply.n =>
       \A id \in TaskIds : Terminal(tasks[id]) => tasks'[id] = tasks[id]]_vars

Polled == reply'.n # reply.n /\ reply'.op = "progress"

C12_UnknownIdNotFound ==
  [][(Polled /\ run[reply'.id].kind = "none")
       => /\ reply'.code = 404
          /\ seen'[reply'.id] = NotFound
          /\ UNCHANGED <<tasks, run, loopOwner>>]_vars

C12_Witness ==
  reply.op = "progress" /\ reply.code = 404 /\ run[reply.id].kind = "none"

Contains(message, text) ==
  \E i \in 0..(Len(message) - Len(text)) :
    SubSeq(message, i + 1, i + Len(text)) = text

\* C13: when a background function ends by an exception, its entry is Failed
\* with a message that contains the text of the error (for an external tool
\* its stderr), and the function ends: nothing is raised to the submitter.
C13_FailuresOnEntry ==
  [][\A id \in TaskIds :
       (run[id].pc # "done" /\ run'[id].pc = "done" /\ run'[id].exc # <<>>)
         => /\ tasks'[id].status = "failed"
            /\ Contains(tasks'[id].message, ErrorText(run'[id].exc))
            /\ loopOwner' = 0]_vars

\* an export ended by an ffmpeg error
C13_Witness ==
  \E id \in TaskIds :
    /\ run[id].kind = "mix_export" /\ run[id].pc = "done"
    /\ run[id].exc = <<"ffmpeg.Error", "stderr">>
    /\ tasks[id].status = "failed"

\* C14: a StartSeparation, StartMerge or StartExport that names a file or a
\* directory that does not exist is answered 404 at once; no background
\* function is scheduled and the task table is unchanged.
C14_RejectedBeforeTask ==
  [][(/\ reply'.n # reply.n
      /\ reply'.op \in {"separate", "merge", "mix_export"}
      /\ ~reply'.files)
       => /\ reply'.code = 404 /\ reply'.id = 0
          /\ UNCHANGED <<tasks, run, loopOwner>>]_vars

C14_Witness == reply.op = "mix_export" /\ reply.code = 404 /\ ~reply.files

\* C16: after a Cleanup, GetProgress answers NotFound for every task id
\* submitted before it, also for a task that was executing during the Cleanup
\* and writes its entry afterwards.
C16_CleanupEmpties ==
  [][(Polled /\ reply'.id \in cleared) => reply'.code = 404]_vars

\* the location lies inside one of the three base directories
Inside(at) ==
  \E i \in 1..3 :
    /\ Len(at) > Len(Cwd \o BaseDirs[i])
    /\ SubSeq(at, 1, Len(Cwd \o BaseDirs[i])) = Cwd \o BaseDirs[i]

\* C15: for every requested path, '..' segments included, ServeFile returns a
\* file only if the file's resolved location lies inside downloads/,
\* separated/ or mixes/.
C15_ServedInsideBase == fileResp.code = 200 => Inside(fileResp.at)

\* the stems of the directory, a merge of them having run
Merged == mergeOut # NotMerged
Stems == stem_files(stemDir)
Written == mergeOut.file.state = "written"
\* the canonical vocabulary restricted to the stems present
Present(n) == \E i \in 1..Len(Stems) : Stems[i].name = n
CanonicalPresent == SelectSeq(Canonical, Present)
StemNamed(n) == CHOOSE f \in Range(Stems) : f.name = n

\* C17: the channels of the assembled output are in the order vocals, drums,
\* bass, guitar, piano, other restricted to the stems present, whatever order
\* the directory listing has.
C17_CanonicalOrder == Written => mergeOut.file.order = CanonicalPresent

\* C18: every channel of the assembled output has the frame count of the
\* first canonical stem present; it is that stem's data, cut at the tail or
\* extended with zeros at the tail.
C18_FramesOfFirstCanonical ==
  Written =>
    LET num_frames == Len(StemNamed(CanonicalPresent[1]).data)
    IN  \A i \in 1..Len(mergeOut.file.order) :
          mergeOut.file.data[i] =
            Fit(StemNamed(mergeOut.file.order[i]).data, num_frames)

\* some stem's sample rate differs from the first stem's
RatesDiffer ==
  \E i \in 1..Len(Stems) : Stems[i].samplerate # Stems[1].samplerate

\* C19: when a stem's sample rate differs from the first stem's, the merge
\* ends failed with a message that names the sample rate mismatch and no
\* container is written, not even a partial one.
C19_RateMismatchAborts ==
  (Merged /\ RatesDiffer) =>
    /\ mergeOut.entry.status = "failed"
    /\ Contains(mergeOut.entry.message, <<"Sample rate mismatch for ">>)
    /\ mergeOut.file = NoFile

C19_Witness ==
  /\ Merged /\ RatesDiffer
  /\ mergeOut.entry.status = "failed"
  /\ \A i \in 1..Len(Stems) : Stems[i].channels = 1

\* a stem whose every sample is zero has no energy
Silent(f) == \A k \in 1..Len(f.data) : f.data[k] = 0

\* C20: when a candidate stem is silent over its full duration, the merge
\* fails and the stem is not a channel of a written output.
C20_SilentRejected ==
  (Merged /\ \E i \in 1..Len(Stems) : Silent(Stems[i])) =>
    /\ mergeOut.entry.status = "failed"
    /\ ~Written

\* C21: a second merge of the same directory, in which nothing changed but
\* what the first merge wrote, gives the same stems in the same order and the
\* same channel count as the first.
C21_MergeIdempotent ==
  (Written /\ remerge # NotMerged) =>
    /\ remerge.file.state = "written"
    /\ remerge.file.order = mergeOut.file.order
    /\ remerge.file.channels = mergeOut.file.channels

\* an export that completed
Mixed == mixOut.entry.status = "completed"
\* the gain the claim gives a stem of the assembled set
RECURSIVE AssembledFrame(_, _, _, _)
AssembledFrame(file, gains, k, i) ==
  IF i > Len(file.order) THEN 0
  ELSE file.data[i][k] * GainOf(gains, file.order[i])
         + AssembledFrame(file, gains, k, i + 1)

\* C22: before normalization every output frame of the export is the sum over
\* the stems of the assembled set of stem sample times gain, a stem missing
\* from the gains map taking gain 1.0 and a name that is no stem adding
\* nothing.
C22_MixIsGainSum ==
  (Mixed /\ CurrentFile.state = "written") =>
    /\ Len(mixOut.mixed) = Len(CurrentFile.data[1])
    /\ \A k \in 1..Len(mixOut.mixed) :
         mixOut.mixed[k] = AssembledFrame(CurrentFile, mixOut.gains, k, 1)

\* C23: the audio the export writes has peak absolute amplitude at most 1.0;
\* it is the sum divided by its peak when the peak exceeds 1.0 and the sum
\* itself when it does not.
C23_NeverClips ==
  Mixed =>
    /\ \A k \in 1..Len(mixOut.audio) :
         Abs(mixOut.audio[k].n) <= mixOut.audio[k].d
    /\ \E d \in {UnityGain, Peak(mixOut.mixed)} :
         /\ d = UnityGain <=> Peak(mixOut.mixed) <= UnityGain
         /\ mixOut.audio = [k \in 1..Len(mixOut.mixed) |-> Frac(mixOut.mixed[k], d)]

\* an export whose sum peaks at three times full scale
C23_Witness ==
  /\ Mixed
  /\ Peak(mixOut.mixed) = MaxGain + UnityGain

\* C24: in every reachable state each stem of stemNames has a gain in [0, 2]
\* and the gain node of that stem, when there is one, holds the value
\* stemGains has for the stem.
C24_GainsInRangeAndLive ==
  \A n \in Range(stemNames) :
    /\ n \in DOMAIN stemGains
    /\ stemGains[n] >= 0 /\ stemGains[n] <= MaxGain
    /\ n \in DOMAIN nodeGain => nodeGain[n] = stemGains[n]

\* C25: the stem order and the channel layout that a load uses are the ones
\* recorded for the stem set it loads, or none; what was recorded for another
\* stem set is never used.
C25_OwnManifest ==
  manifest.loadedDir # NoDir =>
    /\ manifest.possibleStems \in {Canonical, RecordedOrder(manifest.loadedDir)}
    /\ manifest.layoutUsed \in {Null, RecordedLayout(manifest.loadedDir)}

\* C26: in every state reached through page start, metadata load, stem-set
\* load, Play, Pause, Stop and Seek the video is muted and its volume is 0.
C26_VideoMuted == video.muted /\ video.volume = 0

\* the video plays along with the stems
C26_Witness == isPlaying /\ ~video.paused /\ C26_VideoMuted

\* the step in which a recorded handler runs, and its record
Ran(op) == tracing /\ hist' # hist /\ Last(hist').op = op
Run == Last(hist')
\* the step in which startPlaybackFrom runs to its end
StartCompletes == (Ran("Play") \/ Ran("Resumed")) /\ Started(Run)
\* the effects fs occur in fx in this order, next to one another
Adjacent(fx, fs) ==
  \E i \in 0..(Len(fx) - Len(fs)) : SubSeq(fx, i + 1, i + Len(fs)) = fs

\* C27: when startPlaybackFrom completes for a Play at position p, isPlaying
\* is true, startTime is the audio clock minus max(0, p), pauseTime is
\* max(0, p), the video was told to seek there and play, and the projector
\* was sent the seek to that position and then play.
C27_PlayReanchors ==
  [][StartCompletes =>
       LET c == Max(0, Run.arg) IN
       /\ isPlaying' /\ startTime' = clock' - c /\ pauseTime' = c
       /\ video'.currentTime = c /\ ~video'.paused
       /\ Adjacent(Run.fx, <<Fx("vseek", "", c), Fx("vplay", "", 0),
                             Fx("ipc", "projector-seek", c),
                             Fx("ipc", "projector-play", 0)>>)
       /\ ipcQ' = ipcQ \o <<Ipc("projector-seek", c), Ipc("projector-play", 0)>>]_vars

\* Play from Paused at a position after the start
C27_Witness ==
  /\ tracing /\ Len(hist) >= 2
  /\ hist[Len(hist) - 1].op = "Pause" /\ hist[Len(hist) - 1].fx # <<>>
  /\ Last(hist).op = "Play" /\ Started(Last(hist)) /\ Last(hist).arg > 0
  /\ isPlaying /\ pauseTime = Last(hist).arg

\* C28: whenever startPlaybackFrom completes at position p >= 0, every stem
\* of stemNames has exactly one new source and each is started at offset p,
\* the offset of the video and projector seek, also for p later than a
\* stem's duration minus 0.05 s.
C28_AllStemsSameOffset ==
  [][StartCompletes =>
       LET c == Max(0, Run.arg) IN
       \A n \in Range(stemNames) :
         /\ Cardinality({i \in 1..Len(sourceNodes') : sourceNodes'[i].stem = n}) = 1
         /\ \A i \in 1..Len(sourceNodes') :
              sourceNodes'[i].stem = n => sourceNodes'[i].offset = c]_vars

\* C29: Pause while Playing stops every source, empties sourceNodes, pauses
\* the video, sends 'projector-pause', sets pauseTime to the audio clock minus
\* startTime and isPlaying to false; Pause while not Playing changes no
\* state and sends nothing.
C29_PauseCaptures ==
  [][Ran("Pause") =>
       IF isPlaying
       THEN /\ Run.fx = StopFx \o <<Fx("vpause", "", 0),
                                    Fx("ipc", "projector-pause", 0)>>
            /\ sourceNodes' = <<>>
            /\ video'.paused
            /\ ipcQ' = Append(ipcQ, Ipc("projector-pause", 0))
            /\ pauseTime' = clock - startTime
            /\ ~isPlaying'
       ELSE /\ Run.fx = <<>>
            /\ UNCHANGED <<transportVars, video, ipcQ, audioVars, stemVars>>]_vars

\* a Pause while playing, after the clock has advanced
C29_Witness ==
  /\ tracing /\ hist # <<>>
  /\ Last(hist).op = "Pause" /\ Last(hist).fx # <<>>
  /\ ~isPlaying /\ pauseTime > 0 /\ video.paused /\ sourceNodes = <<>>

\* the recorded handler runs since the last Stop are 'seeked' handlers only
SinceStop ==
  /\ tracing /\ hist # <<>>
  /\ \/ Last(hist).op = "Stop"
     \/ /\ Len(hist) >= 2
        /\ hist[Len(hist) - 1].op = "Stop" /\ Last(hist).op = "Seeked"

\* C30: from any phase Stop leaves no active source, pauseTime 0 and
\* isPlaying false, pauses the video and seeks it to 0 and sends the
\* projector a pause and a seek to 0; a 'seeked' handled after the Stop,
\* before any other command, changes no transport state.
C30_StopResets ==
  [][/\ Ran("Stop") =>
          /\ sourceNodes' = <<>> /\ pauseTime' = 0 /\ ~isPlaying'
          /\ video'.paused /\ video'.currentTime = 0 /\ video'.seeking
          /\ Adjacent(Run.fx, <<Fx("vpause", "", 0), Fx("vseek", "", 0),
                                Fx("ipc", "projector-pause", 0),
                                Fx("ipc", "projector-seek", 0)>>)
          /\ ipcQ' = ipcQ \o <<Ipc("projector-pause", 0),
                               Ipc("projector-seek", 0)>>
     /\ (SinceStop /\ Ran("Seeked")) =>
          UNCHANGED <<sourceNodes, isPlaying, startTime, pauseTime>>]_vars

\* Stop while playing, and its own 'seeked' handled
C30_Witness ==
  /\ tracing /\ Len(hist) >= 2
  /\ hist[Len(hist) - 1].op = "Stop" /\ hist[Len(hist) - 1].owed = 0
  /\ Len(hist[Len(hist) - 1].fx) > 4
  /\ Last(hist).op = "Seeked" /\ Last(hist).fx = <<Fx("suppressed", "", 0)>>
  /\ ~isPlaying /\ pauseTime = 0

\* the step in which the 'seeked' handler runs
SeekedStep == seekedQ' = seekedQ - 1
\* the notification being handled is the one of the user's last seek: the
\* seek was the last recorded command, it has ended, and no other
\* notification is queued
OfUserSeek ==
  /\ SeekedStep /\ tracing /\ hist # <<>>
  /\ Last(hist).op = "UserSeek" /\ seekedQ = 1 /\ ~video.seeking

\* C31: the 'seeked' of a user seek to T sets pauseTime = T, sends
\* 'projector-seek' T and starts no source while not Playing; while Playing it
\* stops the sources and starts new ones at T with startTime = clock - T and
\* the transport still Playing; with no audio context a 'seeked' changes
\* nothing.
C31_SeekInAnyPhase ==
  [][/\ (SeekedStep /\ audioContext = 0) =>
          UNCHANGED <<transportVars, stemVars, audioVars, video, ipcQ, pendingPlays>>
     /\ (OfUserSeek /\ audioContext # 0) =>
          LET T == Last(hist).arg IN
          IF isPlaying
          THEN /\ isPlaying' /\ startTime' = clock - T
               /\ sourceNodes' # <<>>
               /\ \A i \in 1..Len(sourceNodes') : sourceNodes'[i].offset = T
               /\ Range(sourceNodes) \cap Range(sourceNodes') = {}
          ELSE /\ pauseTime' = T
               /\ ipcQ' = Append(ipcQ, Ipc("projector-seek", T))
               /\ sourceNodes' = sourceNodes /\ ~isPlaying']_vars

\* a recorded run that issued a video seek through scheduleVideoSeek
IssuedSeek(e) == e.op = "Stop" \/ (e.op \in {"Play", "Resumed"} /\ Started(e))
Suppressed(e) == e.op = "Seeked" /\ e.fx = <<Fx("suppressed", "", 0)>>

\* C32: every 'seeked' caused by a seek the synchronizer issued is ignored by
\* the handler.  After a Stop or a completed Play with at most one
\* notification outstanding, the second 'seeked' handled with no command in
\* between is the one of that Stop or Play, and has to be ignored.
C32_EchoSuppressionExact ==
  (/\ tracing /\ Len(hist) = 3
   /\ IssuedSeek(hist[1]) /\ hist[1].owed <= 1
   /\ hist[2].op = "Seeked" /\ hist[3].op = "Seeked")
    => Suppressed(hist[3])

\* sourceNodes holds at most one source for each stem
OnePerStem(nodes) ==
  \A i, j \in 1..Len(nodes) : nodes[i].stem = nodes[j].stem => i = j

\* C33: every source that was started and not stopped is an element of
\* sourceNodes, sourceNodes holds at most one source per stem, and Play while
\* Playing starts nothing and changes no state.
C33_OneInstance ==
  [][/\ orphans' = {} /\ OnePerStem(sourceNodes')
     /\ (PlayClick /\ isPlaying) =>
          UNCHANGED <<transportVars, audioVars, stemVars, videoVars, ipcQ,
                      pendingPlays>>]_vars

\* C34: a slider event for a stem leaves isPlaying, startTime, pauseTime,
\* sourceNodes and the seek-suppression flag unchanged, sends no command to
\* the video or the projector, and changes only stemGains and the gain node
\* of that stem.
C34_GainLeavesTransport ==
  [][\A n \in Range(PossibleStems), g \in SliderValues :
       SliderInput(n, g) =>
         /\ UNCHANGED <<isPlaying, startTime, pauseTime, sourceNodes,
                        suppressVideoSeekHandler, video, seekedQ, ipcQ,
                        pendingPlays>>
         /\ stemGains'[n] = g
         /\ \A m \in DOMAIN stemGains \ {n} : stemGains'[m] = stemGains[m]
         /\ DOMAIN nodeGain' = DOMAIN nodeGain
         /\ \A m \in DOMAIN nodeGain :
              nodeGain'[m] = IF m = n THEN g ELSE nodeGain[m]]_vars

\* both sliders moved apart while the stems are playing
C34_Witness ==
  /\ isPlaying /\ sourceNodes # <<>>
  /\ DOMAIN stemGains = {"vocals", "drums"}
  /\ stemGains["vocals"] = MaxGain /\ stemGains["drums"] = 0
  /\ nodeGain = stemGains

\* a stem-set load that found at least one stem comes to its end
LoadEnds == LoadFinish /\ stemNames # <<>>
\* a step that changes the gain of a stem that has one
GainChanges ==
  \E n \in DOMAIN stemGains \cap DOMAIN stemGains' : stemGains'[n] # stemGains[n]

\* C35: when a stem-set load that found a stem ends, stemGains, audioBuffers
\* and gainNodes have exactly the names of stemNames as keys; the load sets
\* the gain of every stem it fetches to the default 1.0; while no load is
\* running only a slider event changes a gain.
C35_GainStateCovers ==
  [][/\ LoadEnds =>
          /\ DOMAIN stemGains' = Range(stemNames')
          /\ audioBuffers' = Range(stemNames')
          /\ DOMAIN gainNodes' = Range(stemNames')
     /\ (LoadFetch /\ Len(stemNames') > Len(stemNames)) =>
          stemGains'[Last(stemNames')] = UnityGain
     /\ (GainChanges /\ loads = <<>>) =>
          \E n \in sliders, g \in SliderValues : SliderInput(n, g)]_vars

\* C36: when a stem-set load ends, stemNames is the sub-sequence of the order
\* the load was given (the backend's, or the six canonical names when there is
\* none) made of the stems that could be fetched: in that order and each name
\* once, also when two loads overlap.
C36_OrderNotRederived ==
  [][LoadEnds => stemNames' = SelectSeqBy(PossibleStems, audioBuffers')]_vars

\* a task that was accepted and whose function has not returned
InFlight(id) == run[id].kind # "none" /\ run[id].pc # "done"

StartRan == isPlaying' /\ Len(ipcQ') = Len(ipcQ) + 2

\* C38: when a Play or a seek-restart has completed with isPlaying true,
\* stemNames is not empty and sourceNodes holds exactly one source for each
\* name of stemNames.
C38_PlayingMeansSounding ==
  [][StartRan =>
       /\ stemNames' # <<>>
       /\ \A n \in Range(stemNames') :
            Cardinality({i \in 1..Len(sourceNodes') :
                           sourceNodes'[i].stem = n}) = 1]_vars

\* a projector window that exists and has not been told to close
Open(w) == wins[w].state \in {"loading", "ready"}

\* C39: at most one projector window is open at a time, and projectorWindow
\* refers to the open window whenever there is one.
C39_OneProjectorHeld ==
  /\ Cardinality({w \in 1..Len(wins) : Open(w)}) <= 1
  /\ \A w \in 1..Len(wins) : Open(w) => projectorWindow = w

\* C40: the poller keeps its timer while it has seen no terminal status and
\* no error, sends no request once it has seen one, and hands a terminal
\* status to the callback at most once, also with several requests on their
\* way at once.
C40_PollingEndsOnce ==
  [][/\ poll'.handed <= 1
     /\ (poll.timer /\ ~poll'.timer) => PollResponse
     /\ (poll'.sent > poll.sent) => poll.timer]_vars
====
